---- MODULE Spec2Model ----
(***************************************************************************)
(* pystunnel: StunnelConfig (the configuration reader) and Stunnel (the    *)
(* lifecycle controller: start, stop, check, getpid), pystunnel.py.        *)
(*                                                                         *)
(* Text is modelled as sequences of one-character strings, so that         *)
(* str.strip, the three regular expressions, int(bytes, 10), the "%d" and  *)
(* "%s" formatting and the shell's word splitting are computed character   *)
(* by character.                                                           *)
(***************************************************************************)
EXTENDS Integers, Sequences, FiniteSets, TLC

VARIABLES
    cfgDisk,      \* the config files on disk: path -> Absent or the list of lines
    pidDisk,      \* the PID files on disk: path -> Absent or the file's bytes
    config_file,  \* self.config_file
    pid_file,     \* self.pid_file
    foreground,   \* self.foreground
    last,         \* the most recent event: the operation, its return value, its subprocess calls
    e2e,          \* how far the docstring's example (start, check, getpid, stop) has come
    pc,           \* where a stop() taken one file read at a time stands, and the PID its check() saw
    cli           \* the command line run: its arguments, its position, loop()'s rc, the exit code

vars == <<cfgDisk, pidDisk, config_file, pid_file, foreground, last, e2e, pc, cli>>

(***************************************************************************)
(* Values                                                                  *)
(***************************************************************************)

\* Python's None, as a value comparable with character sequences.
None == << "<None>" >>

\* A path that names no regular file (os.path.isfile is False).
Absent == << "<absent>" >>

\* bool(x) of a str-or-None attribute: None and "" are false.
Truthy(x) == x # None /\ x # <<>>

\* c repeated n times.
Rep(c, n) == [i \in 1..n |-> c]

(***************************************************************************)
(* str.strip() and the regular expressions of StunnelConfig                *)
(***************************************************************************)

\* The whitespace that str.strip() removes and \s matches.
IsSpace(c) == c \in {" ", "\t", "\n", "\r"}

RECURSIVE LStrip(_)
LStrip(s) == IF s # <<>> /\ IsSpace(Head(s)) THEN LStrip(Tail(s)) ELSE s

RECURSIVE RStrip(_)
RStrip(s) ==
    IF s # <<>> /\ IsSpace(s[Len(s)]) THEN RStrip(SubSeq(s, 1, Len(s) - 1)) ELSE s

strip(s) == RStrip(LStrip(s))

StartsWith(s, p) == Len(s) >= Len(p) /\ SubSeq(s, 1, Len(p)) = p

\* _section_re.match(line): r"\[(.*)\]" anchored at the start of the line only.
section_re_match(line) ==
    /\ Len(line) >= 2
    /\ line[1] = "["
    /\ \E j \in 2..Len(line) : line[j] = "]"

\* re.compile(key + r"\s*=\s*(.*)").match(line): None, or group(1), which is
\* what follows the "=" and the whitespace after it.
KeyValueMatch(key, line) ==
    IF ~StartsWith(line, key)
    THEN None
    ELSE LET rest == LStrip(SubSeq(line, Len(key) + 1, Len(line)))
         IN  IF rest # <<>> /\ Head(rest) = "="
             THEN LStrip(Tail(rest))
             ELSE None

pid_file_re_match(line) == KeyValueMatch(<<"p", "i", "d">>, line)

foreground_re_match(line) ==
    KeyValueMatch(<<"f", "o", "r", "e", "g", "r", "o", "u", "n", "d">>, line)

yes == <<"y", "e", "s">>

(***************************************************************************)
(* StunnelConfig._read_config                                              *)
(***************************************************************************)

\* ScanLines with "continue" in place of the section header's "return".
RECURSIVE ScanLines_Continue(_, _)
ScanLines_Continue(lines, cfg) ==
    IF lines = <<>>
    THEN cfg
    ELSE LET line == strip(Head(lines))
             pm   == pid_file_re_match(line)
             fm   == foreground_re_match(line)
         IN  IF section_re_match(line)
             THEN ScanLines_Continue(Tail(lines), cfg)
             ELSE IF pm # None
             THEN ScanLines_Continue(Tail(lines), [cfg EXCEPT !.pid_file = pm])
             ELSE IF fm # None /\ fm = yes
             THEN ScanLines_Continue(Tail(lines), [cfg EXCEPT !.foreground = TRUE])
             ELSE ScanLines_Continue(Tail(lines), cfg)

\* ScanLines keeping the first pid line's value instead of the last one's.
RECURSIVE ScanLines_FirstWins(_, _)
ScanLines_FirstWins(lines, cfg) ==
    IF lines = <<>>
    THEN cfg
    ELSE LET line == strip(Head(lines))
             pm   == pid_file_re_match(line)
             fm   == foreground_re_match(line)
         IN  IF section_re_match(line)
             THEN cfg
             ELSE IF pm # None
             THEN ScanLines_FirstWins(Tail(lines),
                                      IF cfg.pid_file = None
                                      THEN [cfg EXCEPT !.pid_file = pm]
                                      ELSE cfg)
             ELSE IF fm # None /\ fm = yes
             THEN ScanLines_FirstWins(Tail(lines), [cfg EXCEPT !.foreground = TRUE])
             ELSE ScanLines_FirstWins(Tail(lines), cfg)

\* ScanLines assigning foreground = (value == "yes") at every foreground line.
RECURSIVE ScanLines_Assign(_, _)
ScanLines_Assign(lines, cfg) ==
    IF lines = <<>>
    THEN cfg
    ELSE LET line == strip(Head(lines))
             pm   == pid_file_re_match(line)
             fm   == foreground_re_match(line)
         IN  IF section_re_match(line)
             THEN cfg
             ELSE IF pm # None
             THEN ScanLines_Assign(Tail(lines), [cfg EXCEPT !.pid_file = pm])
             ELSE IF fm # None
             THEN ScanLines_Assign(Tail(lines), [cfg EXCEPT !.foreground = (fm = yes)])
             ELSE ScanLines_Assign(Tail(lines), cfg)

\* The for loop over the lines, from attributes [pid_file, foreground]: a
\* section header returns, a pid line assigns pid_file, a foreground line
\* with the value "yes" sets foreground.
RECURSIVE ScanLines(_, _)
ScanLines(lines, cfg) ==
    IF lines = <<>>
    THEN cfg
    ELSE LET line == strip(Head(lines))
             pm   == pid_file_re_match(line)
             fm   == foreground_re_match(line)
         IN  IF section_re_match(line)
             THEN cfg
             ELSE IF pm # None
             THEN ScanLines(Tail(lines), [cfg EXCEPT !.pid_file = pm])
             ELSE IF fm # None /\ fm = yes
             THEN ScanLines(Tail(lines), [cfg EXCEPT !.foreground = TRUE])
             ELSE ScanLines(Tail(lines), cfg)

\* os.path.isfile on a config path, against a disk.
IsCfgFile(disk, path) == path \in DOMAIN disk /\ disk[path] # Absent

\* _read_config from attributes cfg, for config file path `path`.
read_config(disk, path, cfg) ==
    IF Truthy(path) /\ IsCfgFile(disk, path)
    THEN ScanLines(disk[path], cfg)
    ELSE cfg

\* StunnelConfigInit with a default PID file path in place of None.
StunnelConfigInit_DefaultPid(disk, path) ==
    LET cfg == read_config(disk, path, [pid_file |-> <<"/", "a">>, foreground |-> FALSE])
    IN  [config_file |-> path, pid_file |-> cfg.pid_file, foreground |-> cfg.foreground]

\* StunnelConfig.__init__(config_file), which Stunnel.__init__ calls.
StunnelConfigInit(disk, path) ==
    LET cfg == read_config(disk, path, [pid_file |-> None, foreground |-> FALSE])
    IN  [config_file |-> path, pid_file |-> cfg.pid_file, foreground |-> cfg.foreground]

(***************************************************************************)
(* int(bytes, 10), "%d" % n, and /bin/sh's word splitting                  *)
(***************************************************************************)

DigitChars == <<"0", "1", "2", "3", "4", "5", "6", "7", "8", "9">>

IsDigit(c) == \E d \in 1..10 : DigitChars[d] = c

DigitVal(c) == (CHOOSE d \in 1..10 : DigitChars[d] = c) - 1

\* The value of a non-empty string of digits.
RECURSIVE DigitsValue(_)
DigitsValue(ds) ==
    IF Len(ds) = 1
    THEN DigitVal(ds[1])
    ELSE 10 * DigitsValue(SubSeq(ds, 1, Len(ds) - 1)) + DigitVal(ds[Len(ds)])

\* int(s, 10): surrounding whitespace is skipped, one sign is accepted, and what
\* is left must be one or more digits; anything else is a ValueError (ok = FALSE).
ParseInt(s) ==
    LET t      == strip(s)
        signed == t # <<>> /\ Head(t) \in {"-", "+"}
        ds     == IF signed THEN Tail(t) ELSE t
    IN  IF ds # <<>> /\ \A i \in 1..Len(ds) : IsDigit(ds[i])
        THEN [ok |-> TRUE,
              val |-> IF signed /\ Head(t) = "-" THEN 0 - DigitsValue(ds) ELSE DigitsValue(ds)]
        ELSE [ok |-> FALSE, val |-> 0]

\* The digits of n >= 0.
RECURSIVE Digits(_)
Digits(n) ==
    IF n < 10
    THEN <<DigitChars[n + 1]>>
    ELSE Digits(n \div 10) \o <<DigitChars[(n % 10) + 1]>>

\* "%d" % n
FormatD(n) == IF n < 0 THEN <<"-">> \o Digits(0 - n) ELSE Digits(n)

\* What sh reports for a command line whose quote is never closed.
SyntaxError == << <<"<syntax error>">> >>

\* The words sh splits a command line into, over the characters modelled
\* (letters, digits, ".", "/", "-", blanks and the double quote): a double quote
\* opens or closes a quoted stretch and is dropped, blanks outside quotes end a
\* word, adjacent stretches join into one word. st = [words, cur, open, inq]:
\* the words ended so far, the word being read, whether a word is being read,
\* whether a quote is open.
RECURSIVE ShellScan(_, _)
ShellScan(cmd, st) ==
    IF cmd = <<>>
    THEN IF st.inq
         THEN SyntaxError
         ELSE IF st.open THEN Append(st.words, st.cur) ELSE st.words
    ELSE LET c == Head(cmd)
         IN  IF c = "\""
             THEN ShellScan(Tail(cmd), [st EXCEPT !.open = TRUE, !.inq = ~st.inq])
             ELSE IF IsSpace(c) /\ ~st.inq
             THEN ShellScan(Tail(cmd),
                            IF st.open
                            THEN [words |-> Append(st.words, st.cur), cur |-> <<>>,
                                  open |-> FALSE, inq |-> FALSE]
                            ELSE st)
             ELSE ShellScan(Tail(cmd), [st EXCEPT !.cur = Append(st.cur, c), !.open = TRUE])

ShellWords(cmd) ==
    ShellScan(cmd, [words |-> <<>>, cur |-> <<>>, open |-> FALSE, inq |-> FALSE])

(***************************************************************************)
(* Stunnel: getpid, check, start, stop                                     *)
(***************************************************************************)

\* f.read(16)
ReadLen == 16

\* os.path.isfile on a PID-file path, against a disk.
IsPidFile(disk, path) == path \in DOMAIN disk /\ disk[path] # Absent

\* GetpidOn reading the whole file, f.read(), instead of f.read(16).
GetpidOn_ReadAll(disk, pf) ==
    IF Truthy(pf) /\ IsPidFile(disk, pf)
    THEN LET bpid == disk[pf]
             r    == ParseInt(bpid)
         IN  IF bpid # <<>> /\ r.ok THEN r.val ELSE -1
    ELSE -1

\* Stunnel.getpid() for pid_file attribute pf, against a disk.
GetpidOn(disk, pf) ==
    IF Truthy(pf) /\ IsPidFile(disk, pf)
    THEN LET bpid == SubSeq(disk[pf], 1, IF Len(disk[pf]) < ReadLen THEN Len(disk[pf]) ELSE ReadLen)
             r    == ParseInt(bpid)
         IN  IF bpid # <<>> /\ r.ok THEN r.val ELSE -1
    ELSE -1

getpid == GetpidOn(pidDisk, pid_file)

\* CheckOf comparing with the sentinel, pid != -1, instead of pid >= 0.
CheckOf_NotSentinel(pid) == IF pid # -1 THEN 0 ELSE 1

\* Stunnel.check() for a value pid of getpid().
CheckOf(pid) == IF pid >= 0 THEN 0 ELSE 1

check == CheckOf(getpid)

\* 'stunnel "%s"' % config_file
StunnelCmd(path) ==
    <<"s", "t", "u", "n", "n", "e", "l", " ", "\"">> \o path \o <<"\"">>

\* KillCmd signalling the process group, "kill -%d".
KillCmd_Group(pid) == <<"k", "i", "l", "l", " ", "-">> \o FormatD(pid)

\* "kill %d" % pid
KillCmd(pid) == <<"k", "i", "l", "l", " ">> \o FormatD(pid)

\* One subprocess.call(cmd, shell=True) that returned status.
Call(cmd, status) == [cmd |-> cmd, status |-> status]

\* The event record of an operation: its name, what it returned, and the
\* subprocess calls it made, in order.
Event(op, rc, calls) == [op |-> op, rc |-> rc, calls |-> calls]

\* start() without the check() == 1 condition.
start_NoCheck(status) ==
    IF Truthy(pid_file) /\ ~foreground
    THEN [op |-> "start", rc |-> status,
          calls |-> <<[cmd |-> StunnelCmd(config_file), status |-> status]>>]
    ELSE [op |-> "start", rc |-> 1, calls |-> <<>>]

\* start() with the condition on check() inverted, check() == 0.
start_Inverted(status) ==
    IF Truthy(pid_file) /\ ~foreground /\ check = 0
    THEN [op |-> "start", rc |-> status,
          calls |-> <<[cmd |-> StunnelCmd(config_file), status |-> status]>>]
    ELSE [op |-> "start", rc |-> 1, calls |-> <<>>]

\* Stunnel.start(), where the subprocess call (if made) returns status.
start(status) ==
    IF Truthy(pid_file) /\ ~foreground /\ check = 1
    THEN Event("start", status, <<Call(StunnelCmd(config_file), status)>>)
    ELSE Event("start", 1, <<>>)

\* stop() testing getpid() != -1 instead of check() == 0.
stop_NotSentinel(status) ==
    IF getpid # -1
    THEN [op |-> "stop", rc |-> status,
          calls |-> <<[cmd |-> KillCmd(getpid), status |-> status]>>]
    ELSE [op |-> "stop", rc |-> 1, calls |-> <<>>]

\* Stunnel.stop(), where the subprocess call (if made) returns status. The PID
\* file is read twice: once by check(), once by getpid().
stop(status) ==
    IF check = 0
    THEN Event("stop", status, <<Call(KillCmd(getpid), status)>>)
    ELSE Event("stop", 1, <<>>)

(***************************************************************************)
(* The files the model draws from                                          *)
(***************************************************************************)

\* Config file paths: a plain one, one with a blank, one with double quotes.
CfgPlain == <<"c">>
CfgBlank == <<"c", " ", "d">>
CfgQuote == <<"c", "\"", " ", "\"", "d">>
CfgPaths == {CfgPlain, CfgBlank, CfgQuote}

\* PID file paths, the values of the config files' pid lines.
PidA == <<"/", "a">>
PidB == <<"/", "b">>
PidPaths == {PidA, PidB}

\* Config file lines, as readlines() returns them.
LinePidA    == <<" ", "p", "i", "d", " ", "=", " ", "/", "a", " ", "\n">>
LinePidB    == <<"p", "i", "d", "=", "/", "b", "\n">>
LinePidNone == <<"p", "i", "d", " ", "=", "\n">>
LineFgYes   == <<"f", "o", "r", "e", "g", "r", "o", "u", "n", "d", " ", "=", " ", "y", "e", "s", "\n">>
LineFgNo    == <<"f", "o", "r", "e", "g", "r", "o", "u", "n", "d", " ", "=", " ", "n", "o", "\n">>
LineFgUpper == <<"f", "o", "r", "e", "g", "r", "o", "u", "n", "d", "=", "Y", "E", "S", "\n">>
LineSection == <<"[", "s", "]", "\n">>
LineComment == <<";", " ", "p", "i", "d", " ", "=", " ", "/", "b", "\n">>

ConfigLines ==
    {LinePidA, LinePidB, LinePidNone, LineFgYes, LineFgNo, LineFgUpper, LineSection,
     LineComment}

\* The lines the lifecycle's config files are made of.
LifecycleLines == {LinePidA, LinePidB, LinePidNone, LineFgYes}

\* The longest config file of the reader's specification, in lines.
MaxLines == 3

\* The longest config file of the lifecycle's specification, in lines.
MaxCfgLines == 2

SeqsUpTo(S, n) == UNION {[1..k -> S] : k \in 0..n}

\* PID file contents: empty, decimal PIDs with and without the newline, a
\* negative number, garbage, and two files longer than the 16 bytes read:
\* sixteen digits 0...042 followed by "7", and "12" padded to 16 bytes followed
\* by "x".
PidContents ==
    { <<>>,
      <<"1", "2">>,
      <<"7", "\n">>,
      <<"0">>,
      <<"-", "5">>,
      <<"x", "1">>,
      Rep("0", 14) \o <<"4", "2", "7">>,
      <<"1", "2">> \o Rep(" ", 14) \o <<"x">> }

\* The exit statuses subprocess.call may return.
Statuses == {0, 1, 2}

(***************************************************************************)
(* The docstring's example: start, check, getpid, stop                     *)
(***************************************************************************)

\* The PID p >= 0 a PID file holds when its content is p in decimal, with or
\* without a final newline; -1 otherwise.
WrittenPid(content) ==
    LET body == IF content # <<>> /\ content[Len(content)] = "\n"
                THEN SubSeq(content, 1, Len(content) - 1)
                ELSE content
        r    == ParseInt(body)
    IN  IF content # Absent /\ r.ok /\ r.val >= 0 /\ FormatD(r.val) = body THEN r.val ELSE -1

\* The example's starting point: a pid entry in the config and no PID file.
Fresh(disk) == Truthy(pid_file) /\ ~IsPidFile(disk, pid_file)

\* The example's position after event op, with the PID files then as disk:
\* start() from the starting point, then the daemon writes its PID, then
\* check(), getpid() and stop() in the docstring's order. Any other event
\* leaves the example.
E2eNext(op, disk) ==
    CASE e2e = "fresh" /\ op = "start" -> "started"
      [] e2e = "started" /\ op = "daemon" /\ Truthy(pid_file) /\ IsPidFile(disk, pid_file)
            /\ WrittenPid(disk[pid_file]) >= 0 -> "written"
      [] e2e = "written" /\ op = "check" -> "checked"
      [] e2e = "checked" /\ op = "getpid" -> "gotpid"
      [] e2e = "gotpid" /\ op = "stop" -> "stopped"
      [] OTHER -> IF Fresh(disk) THEN "fresh" ELSE "off"

(***************************************************************************)
(* The lifecycle: a Stunnel object, its caller and the daemon              *)
(***************************************************************************)

\* No stop() is between its two reads of the PID file.
Idle == [at |-> "idle", seen |-> -1]

\* The object is used as a library: there is no command line run.
NoCli ==
    [at |-> "none", via |-> "none", bad |-> FALSE, opts |-> <<>>, args |-> <<>>,
     rc |-> 0, code |-> -1, status |-> -1, badAfter |-> FALSE, ran |-> FALSE]

Init ==
    /\ \E arg \in {None, <<>>} \cup CfgPaths, lines \in SeqsUpTo(LifecycleLines, MaxCfgLines) \cup {Absent} :
          /\ cfgDisk = [p \in CfgPaths |-> IF p = arg THEN lines ELSE Absent]
          /\ LET o == StunnelConfigInit(cfgDisk, arg)
             IN  /\ config_file = o.config_file
                 /\ pid_file = o.pid_file
                 /\ foreground = o.foreground
    /\ pidDisk \in [PidPaths -> PidContents \cup {Absent}]
    /\ last = Event("init", 0, <<>>)
    /\ e2e = IF Fresh(pidDisk) THEN "fresh" ELSE "off"
    /\ pc = Idle
    /\ cli = NoCli

\* Operation with a stop() that removes the PID file once its kill returned 0.
Operation_Unlink(ev) ==
    /\ last' = ev
    /\ e2e' = E2eNext(ev.op, pidDisk)
    /\ pidDisk' = IF ev.op = "stop" /\ ev.rc = 0
                  THEN [pidDisk EXCEPT ![pid_file] = <<"<absent>">>]
                  ELSE pidDisk
    /\ UNCHANGED <<cfgDisk, config_file, pid_file, foreground, pc, cli>>

\* An operation of the controller: it leaves the object and both disks alone.
Operation(ev) ==
    /\ last' = ev
    /\ e2e' = E2eNext(ev.op, pidDisk)
    /\ UNCHANGED <<cfgDisk, pidDisk, config_file, pid_file, foreground, pc, cli>>

Start == \E status \in Statuses : Operation(start(status))

Stop == \E status \in Statuses : Operation(stop(status))

Check == Operation(Event("check", check, <<>>))

Getpid == Operation(Event("getpid", getpid, <<>>))

\* The daemon, or anything else outside the controller, after a change of
\* the PID files to disk.
Daemon(disk) ==
    /\ pidDisk' = disk
    /\ last' = Event("daemon", 0, <<>>)
    /\ e2e' = E2eNext("daemon", disk)
    /\ UNCHANGED <<cfgDisk, config_file, pid_file, foreground, pc, cli>>

DaemonWrite ==
    \E path \in PidPaths, content \in PidContents :
        /\ pidDisk[path] # content
        /\ Daemon([pidDisk EXCEPT ![path] = content])

DaemonRemove ==
    \E path \in PidPaths :
        /\ pidDisk[path] # Absent
        /\ Daemon([pidDisk EXCEPT ![path] = Absent])

Next == Start \/ Stop \/ Check \/ Getpid \/ DaemonWrite \/ DaemonRemove

Spec == Init /\ [][Next]_vars

(***************************************************************************)
(* The reader: Stunnel.__init__ on a config file, as PyStunnel's -c does   *)
(***************************************************************************)

\* PyStunnel.__init__: Stunnel.__init__(self, None), before any -c option.
InitConfig ==
    /\ \E path \in CfgPaths, lines \in SeqsUpTo(ConfigLines, MaxLines) :
          cfgDisk = [p \in CfgPaths |-> IF p = path THEN lines ELSE Absent]
    /\ LET o == StunnelConfigInit(cfgDisk, None)
       IN  /\ config_file = o.config_file
           /\ pid_file = o.pid_file
           /\ foreground = o.foreground
    /\ pidDisk = [p \in PidPaths |-> Absent]
    /\ last = Event("init", 0, <<>>)
    /\ e2e = "off"
    /\ pc = Idle
    /\ cli = NoCli

\* Stunnel.__init__(self, value), for the value of a -c option.
StunnelInit ==
    \E value \in {<<>>} \cup CfgPaths :
        LET o == StunnelConfigInit(cfgDisk, value)
        IN  /\ config_file' = o.config_file
            /\ pid_file' = o.pid_file
            /\ foreground' = o.foreground
            /\ last' = Event("init", 0, <<>>)
            /\ UNCHANGED <<cfgDisk, pidDisk, e2e, pc, cli>>

NextConfig == StunnelInit

SpecConfig == InitConfig /\ [][NextConfig]_vars

(***************************************************************************)
(* Claims about the lifecycle (specification Spec)                         *)
(***************************************************************************)

\* The stunnel command's name.
StunnelWord == <<"s", "t", "u", "n", "n", "e", "l">>

\* The kill command's name.
KillWord == <<"k", "i", "l", "l">>

\* The first n elements of s, or all of s when it is shorter.
Prefix(s, n) == [i \in 1..(IF Len(s) < n THEN Len(s) ELSE n) |-> s[i]]

\* C1: whatever the PID file's state, check() returns 0 exactly when getpid()
\* is >= 0 and 1 otherwise, and never another value.
C1_CheckIffGetpid ==
    last.op = "check" =>
        /\ last.rc \in {0, 1}
        /\ last.rc = 0 <=> getpid >= 0

\* C1's case: check() on a PID file that holds a negative integer.
C1_Witness == last.op = "check" /\ last.rc = 1 /\ getpid < -1

\* C2: start() returns 1 and makes no subprocess call when no pid_file is
\* configured (None or empty), or foreground is true, or check() reports
\* running.
C2_StartRefused ==
    (last.op = "start" /\ (~Truthy(pid_file) \/ foreground \/ check = 0)) =>
        /\ last.rc = 1
        /\ last.calls = <<>>

\* C2's case: start() while a pid_file is configured, foreground is false and
\* check() reports running.
C2_Witness ==
    /\ last.op = "start"
    /\ Truthy(pid_file) /\ ~foreground /\ check = 0
    /\ last.rc = 1

\* C3: stop() while getpid() < 0 (check() reports not running) returns 1 and
\* makes no subprocess call.
C3_StopRefused ==
    (last.op = "stop" /\ getpid < 0) =>
        /\ last.rc = 1
        /\ last.calls = <<>>

\* C3's case: stop() on a PID file that holds a negative integer.
C3_Witness == last.op = "stop" /\ getpid < -1 /\ last.rc = 1

\* C4: with a pid_file configured, foreground false and check() reporting not
\* running, start() makes exactly one subprocess call, whose command is stunnel
\* with the config file path as its sole argument, and returns that call's
\* status.
C4_StartSpawnsOnce ==
    (last.op = "start" /\ Truthy(pid_file) /\ ~foreground /\ check = 1) =>
        /\ Len(last.calls) = 1
        /\ ShellWords(last.calls[1].cmd) = <<StunnelWord, config_file>>
        /\ last.rc = last.calls[1].status

\* C5: while check() reports running, stop() makes exactly one subprocess call,
\* whose command is kill with the PID that getpid() returns as its sole
\* argument, and returns that call's status.
C5_StopSignalsOnce ==
    (last.op = "stop" /\ check = 0) =>
        /\ Len(last.calls) = 1
        /\ LET words == ShellWords(last.calls[1].cmd)
           IN  /\ Len(words) = 2
               /\ words[1] = KillWord
               /\ ParseInt(words[2]).ok
               /\ ParseInt(words[2]).val = getpid
        /\ last.rc = last.calls[1].status

\* C5's case: stop() on a running daemon whose kill returned a nonzero status.
C5_Witness ==
    /\ last.op = "stop"
    /\ getpid = 12
    /\ Len(last.calls) = 1
    /\ last.rc = 2

\* C6: getpid() returns -1 when no pid file is configured, when the PID file is
\* absent, when it is empty, or when its first 16 bytes do not parse as a
\* base-10 integer; otherwise it returns the integer those bytes parse to.
C6_Getpid ==
    last.op = "getpid" =>
        IF ~Truthy(pid_file) \/ ~IsPidFile(pidDisk, pid_file)
        THEN last.rc = -1
        ELSE LET head == Prefix(pidDisk[pid_file], 16)
             IN  IF head = <<>> \/ ~ParseInt(head).ok
                 THEN last.rc = -1
                 ELSE last.rc = ParseInt(head).val

\* C6's case: getpid() on a PID file longer than 16 bytes whose first 16 bytes
\* are a number.
C6_Witness ==
    /\ last.op = "getpid"
    /\ Truthy(pid_file) /\ IsPidFile(pidDisk, pid_file)
    /\ Len(pidDisk[pid_file]) > 16
    /\ last.rc = 42

\* The end-to-end ordering, at each position of the docstring's example: the
\* start() spawned, the check() after the daemon wrote PID p returned 0, the
\* getpid() returned p, the stop() signalled exactly p and returned the
\* signal call's status.
EndToEnd ==
    /\ e2e = "started" => Len(last.calls) = 1
    /\ e2e = "checked" => last.rc = 0
    /\ e2e = "gotpid" => last.rc = WrittenPid(pidDisk[pid_file])
    /\ e2e = "stopped" =>
          /\ Len(last.calls) = 1
          /\ ShellWords(last.calls[1].cmd) = <<KillWord, FormatD(WrittenPid(pidDisk[pid_file]))>>
          /\ last.rc = last.calls[1].status

\* C7 as stated: from a config with a valid pid entry and no PID file, start()
\* attempts a spawn; once the daemon has written PID p, check() returns 0 and
\* getpid() returns p; stop() then signals exactly p and returns the signal
\* call's status.
C7_Original == EndToEnd

\* C7 as amended: the same, from a config with a valid pid entry that does
\* not set foreground = yes.
C7_EndToEnd == ~foreground => EndToEnd

\* C7's case: the example ran to its end, and the stop() signalled the PID.
C7_Witness ==
    /\ e2e = "stopped"
    /\ ~foreground
    /\ last.op = "stop"
    /\ Len(last.calls) = 1

(***************************************************************************)
(* Claims about the reader (specification SpecConfig)                      *)
(***************************************************************************)

\* The object was built on a config file that is on disk.
Constructed == Truthy(config_file) /\ IsCfgFile(cfgDisk, config_file)

\* Whether a line of the file is a section header.
IsSectionLine(l) == section_re_match(strip(l))

\* The value of a pid line of the file; None for any other line.
PidValue(l) == pid_file_re_match(strip(l))

\* The value of a foreground line of the file; None for any other line.
FgValue(l) == foreground_re_match(strip(l))

\* The lines before the first section header (all of them when there is none).
Preamble(lines) ==
    LET headers == {i \in 1..Len(lines) : IsSectionLine(lines[i])}
    IN  IF headers = {}
        THEN lines
        ELSE SubSeq(lines, 1, (CHOOSE i \in headers : \A j \in headers : i <= j) - 1)

\* The indices of the pid lines among lines.
PidLines(lines) == {i \in 1..Len(lines) : PidValue(lines[i]) # None}

\* C8: the reader stops at the first section header: pid_file stays unset
\* unless a pid line comes before that header, and foreground stays false
\* unless a foreground = yes line comes before it.
C8_StopsAtSection ==
    Constructed =>
        LET pre == Preamble(cfgDisk[config_file])
        IN  /\ PidLines(pre) = {} => pid_file = None
            /\ (\A i \in 1..Len(pre) : FgValue(pre[i]) # yes) => ~foreground

\* C8's case: a pid line and a foreground = yes line after a section header,
\* and none before it.
C8_Witness ==
    /\ Constructed
    /\ LET lines == cfgDisk[config_file]
           pre   == Preamble(lines)
       IN  /\ \E j \in (Len(pre) + 2)..Len(lines) : PidValue(lines[j]) # None
           /\ \E j \in (Len(pre) + 2)..Len(lines) : FgValue(lines[j]) = yes
    /\ pid_file = None
    /\ ~foreground

\* C9 as stated: pid_file is the value of the first pid line before any section
\* header (unset when there is none).
C9_FirstPidLine ==
    Constructed =>
        LET pre == Preamble(cfgDisk[config_file])
            ps  == PidLines(pre)
        IN  pid_file = IF ps = {}
                       THEN None
                       ELSE PidValue(pre[CHOOSE i \in ps : \A j \in ps : i <= j])

\* C9 as amended: pid_file is the value of the last pid line before any section
\* header (unset when there is none).
C9_LastPidLine ==
    Constructed =>
        LET pre == Preamble(cfgDisk[config_file])
            ps  == PidLines(pre)
        IN  pid_file = IF ps = {}
                       THEN None
                       ELSE PidValue(pre[CHOOSE i \in ps : \A j \in ps : i >= j])

\* C9's case: two pid lines with different values before any section header.
C9_Witness ==
    /\ Constructed
    /\ LET pre == Preamble(cfgDisk[config_file])
       IN  \E i, j \in PidLines(pre) :
              /\ i < j
              /\ PidValue(pre[i]) # PidValue(pre[j])
              /\ \A k \in PidLines(pre) : k <= j
              /\ pid_file = PidValue(pre[j])

\* C10: foreground is true iff some foreground line before the first section
\* header has the value "yes" exactly.
C10_ForegroundIffYes ==
    Constructed =>
        LET pre == Preamble(cfgDisk[config_file])
        IN  foreground <=> \E i \in 1..Len(pre) : FgValue(pre[i]) = yes

\* C10's case: a foreground = yes line followed, before any section header, by
\* a foreground line with another value.
C10_Witness ==
    /\ Constructed
    /\ foreground
    /\ LET pre == Preamble(cfgDisk[config_file])
       IN  \E i, j \in 1..Len(pre) :
              /\ i < j
              /\ FgValue(pre[i]) = yes
              /\ FgValue(pre[j]) \notin {None, yes}

(***************************************************************************)
(* Further claims about the lifecycle (specification Spec)                 *)
(***************************************************************************)

\* C11: a controller built on no path or on a path missing from disk has the
\* all-empty configuration, and then, whatever the PID files hold, getpid()
\* returns -1, check() returns 1, and start() and stop() return 1 without a
\* subprocess call.
C11_MissingConfig ==
    ~Constructed =>
        /\ pid_file = None
        /\ ~foreground
        /\ last.op = "getpid" => last.rc = -1
        /\ last.op = "check" => last.rc = 1
        /\ last.op \in {"start", "stop"} => (last.rc = 1 /\ last.calls = <<>>)

\* C11's case: start() on a controller built on a missing path, while a PID
\* file holds a PID.
C11_Witness ==
    /\ config_file \in CfgPaths
    /\ ~Constructed
    /\ \E p \in PidPaths : pidDisk[p] = <<"1", "2">>
    /\ last.op = "start"
    /\ last.rc = 1

\* C15: start, stop, check and getpid leave config_file, pid_file, foreground,
\* the config files and the PID files as they are; the PID files change only
\* in the daemon's steps.
C15_ReadOnly ==
    [][last'.op \in {"start", "stop", "check", "getpid"} =>
          UNCHANGED <<config_file, pid_file, foreground, cfgDisk, pidDisk>>]_vars

\* C15's case: a stop() has returned 0 and the PID file is still there, so
\* that check() is still 0.
C15_Witness ==
    /\ last.op = "stop"
    /\ last.rc = 0
    /\ Len(last.calls) = 1
    /\ IsPidFile(pidDisk, pid_file)
    /\ check = 0

(***************************************************************************)
(* stop() one file read at a time, with the daemon in between              *)
(* (specification SpecRace)                                                *)
(***************************************************************************)

\* stop(), line 83: check() reads the PID file. When it reports running the
\* call goes on to line 84; otherwise it returns 1.
StopCheck ==
    /\ pc.at = "idle"
    /\ IF check = 0
       THEN /\ pc' = [at |-> "checked", seen |-> getpid]
            /\ last' = Event("stop_check", 0, <<>>)
       ELSE /\ pc' = [at |-> "idle", seen |-> getpid]
            /\ last' = Event("stop", 1, <<>>)
    /\ UNCHANGED <<cfgDisk, pidDisk, config_file, pid_file, foreground, e2e, cli>>

\* stop(), line 84: getpid() reads the PID file again, and kill is called
\* with what it returns.
StopKill ==
    /\ pc.at = "checked"
    /\ \E status \in Statuses :
          last' = Event("stop", status, <<Call(KillCmd(getpid), status)>>)
    /\ pc' = [at |-> "idle", seen |-> pc.seen]
    /\ UNCHANGED <<cfgDisk, pidDisk, config_file, pid_file, foreground, e2e, cli>>

NextRace == StopCheck \/ StopKill \/ DaemonWrite \/ DaemonRemove

SpecRace == Init /\ [][NextRace]_vars

\* C16: whatever the daemon does to the PID file between the controller's
\* reads, a stop() that signals does so with one kill whose sole argument is
\* the non-negative PID its own check() saw, never -1 or another negative
\* value.
C16_SignalsCheckedPid ==
    (last.op = "stop" /\ last.calls # <<>>) =>
        /\ pc.seen >= 0
        /\ Len(last.calls) = 1
        /\ ShellWords(last.calls[1].cmd) = <<KillWord, FormatD(pc.seen)>>

(***************************************************************************)
(* PyStunnel: the command line (specification SpecCli)                     *)
(*                                                                         *)
(* cli.at is the run's position: "args" before parse_args, "single" and    *)
(* "loop" inside run(), "exit" once main has returned cli.code; cli.via    *)
(* tells which of them returned. cli.bad and cli.opts are what getopt makes *)
(* of the command line: locals of parse_args, gone when it returns and     *)
(* left as they were when it exits. cli.rc is loop()'s variable rc.        *)
(* cli.status, cli.badAfter and cli.ran keep the history the claims speak  *)
(* of: the status of the last command performed (-1: none yet), whether an *)
(* unrecognised word came after it, whether any command was performed.     *)
(* The messages printed are left out.                                      *)
(***************************************************************************)

CmdStart  == <<"s", "t", "a", "r", "t">>
CmdStop   == <<"s", "t", "o", "p">>
CmdCheck  == <<"c", "h", "e", "c", "k">>
CmdGetpid == <<"g", "e", "t", "p", "i", "d">>
CmdQ      == <<"q">>
CmdQuit   == <<"q", "u", "i", "t">>
CmdOther  == <<"x">>

Commands == {CmdStart, CmdStop, CmdCheck, CmdGetpid}

\* The lines raw_input may return: the commands (one with blanks around it),
\* the quit words, an empty and a blank line, an unrecognised word.
InputLines ==
    {CmdStart, <<" ">> \o CmdStop \o <<" ">>, CmdCheck, CmdGetpid, CmdQ, CmdQuit,
     <<>>, <<" ">>, CmdOther}

\* The positional arguments of a run.
CliArgs ==
    {<<>>, <<CmdStart>>, <<CmdStop>>, <<CmdCheck>>, <<CmdGetpid>>, <<CmdOther>>,
     <<CmdCheck, CmdOther>>}

\* The options getopt may return, as (name, value) pairs.
Opt(name, value) == [name |-> name, value |-> value]

Options ==
    {Opt("-c", CfgPlain), Opt("-c", CfgBlank), Opt("--stunnel-config", CfgQuote),
     Opt("-h", <<>>), Opt("-v", <<>>)}

\* The most options on a command line.
MaxOpts == 2

\* The config files of the command line runs: none, one with a pid line, one
\* with a pid line and foreground = yes, one with neither.
CliFiles == <<Absent, <<LinePidA>>, <<LinePidB, LineFgYes>>, <<LineFgNo>>>>

\* The object's attributes.
Obj == [config_file |-> config_file, pid_file |-> pid_file, foreground |-> foreground]

\* OptionC without __init__'s reset: the file is read over the attributes
\* that are there.
OptionC_Keep(disk, value, obj) ==
    LET cfg == read_config(disk, value, [pid_file |-> obj.pid_file, foreground |-> obj.foreground])
    IN  [config_file |-> value, pid_file |-> cfg.pid_file, foreground |-> cfg.foreground]

\* parse_args, lines 138-139: Stunnel.__init__(self, value).
OptionC(disk, value, obj) == StunnelConfigInit(disk, value)

\* parse_args, lines 137-146: the options in order; -h and -v exit with 0.
\* exit = -1: no exit.
RECURSIVE ParseOptions(_, _, _)
ParseOptions(opts, obj, disk) ==
    IF opts = <<>>
    THEN [obj |-> obj, exit |-> -1]
    ELSE LET o == Head(opts)
         IN  IF o.name \in {"-c", "--stunnel-config"}
             THEN ParseOptions(Tail(opts), OptionC(disk, o.value, obj), disk)
             ELSE IF o.name \in {"-h", "--help"}
             THEN [obj |-> obj, exit |-> 0]
             ELSE IF o.name \in {"-v", "--version"}
             THEN [obj |-> obj, exit |-> 0]
             ELSE ParseOptions(Tail(opts), obj, disk)

\* ConfigErrorOf without the test of foreground.
ConfigErrorOf_NoForeground(disk, obj) ==
    \/ ~Truthy(obj.config_file)
    \/ ~IsCfgFile(disk, obj.config_file)
    \/ ~Truthy(obj.pid_file)

\* parse_args, lines 148-159: the four configuration errors.
ConfigErrorOf(disk, obj) ==
    \/ ~Truthy(obj.config_file)
    \/ ~IsCfgFile(disk, obj.config_file)
    \/ ~Truthy(obj.pid_file)
    \/ obj.foreground

\* parse_args: a GetoptError exits with 1; else the options, then the
\* configuration errors, which exit with 1. exit = -1: parse_args returns.
parse_args(bad, opts, obj, disk) ==
    IF bad
    THEN [obj |-> obj, exit |-> 1]
    ELSE LET r == ParseOptions(opts, obj, disk)
         IN  IF r.exit # -1
             THEN r
             ELSE [obj |-> r.obj, exit |-> IF ConfigErrorOf(disk, r.obj) THEN 1 ELSE -1]

\* perform(command) for one of the four commands: the operation's event and
\* the rc returned.
perform(command, status) ==
    IF command = CmdStart
    THEN [ev |-> start(status), rc |-> start(status).rc]
    ELSE IF command = CmdStop
    THEN [ev |-> stop(status), rc |-> stop(status).rc]
    ELSE IF command = CmdCheck
    THEN [ev |-> Event("check", check, <<>>), rc |-> check]
    ELSE [ev |-> Event("getpid", getpid, <<>>), rc |-> IF getpid >= 0 THEN 0 ELSE 1]

\* The history after a command was performed with rc.
Performed(c, rc) == [c EXCEPT !.status = rc, !.badAfter = FALSE, !.ran = TRUE]

\* main returns code, out of parse_args, single or loop.
Exit(c, via, code) == [c EXCEPT !.at = "exit", !.via = via, !.code = code]

\* single(command), and main returning its rc.
single(c, command, status) ==
    IF command \in Commands
    THEN [cli |-> Exit(Performed(c, perform(command, status).rc), "single",
                       perform(command, status).rc),
          last |-> perform(command, status).ev]
    ELSE [cli |-> Exit([c EXCEPT !.badAfter = TRUE], "single", 1), last |-> last]

\* loop_step with rc reset to 0 by an empty line.
loop_step_Reset(c, line, status) ==
    LET command == strip(line)
    IN  IF command \in Commands
        THEN [cli |-> [Performed(c, perform(command, status).rc)
                          EXCEPT !.rc = perform(command, status).rc],
              last |-> perform(command, status).ev]
        ELSE IF command \in {CmdQ, CmdQuit}
        THEN [cli |-> Exit(c, "loop", c.rc), last |-> last]
        ELSE IF command = <<>>
        THEN [cli |-> [c EXCEPT !.rc = 0], last |-> last]
        ELSE [cli |-> [c EXCEPT !.rc = 1, !.badAfter = TRUE], last |-> last]

\* One turn of loop()'s while, lines 205-219, for the line raw_input returned.
loop_step(c, line, status) ==
    LET command == strip(line)
    IN  IF command \in Commands
        THEN [cli |-> [Performed(c, perform(command, status).rc)
                          EXCEPT !.rc = perform(command, status).rc],
              last |-> perform(command, status).ev]
        ELSE IF command \in {CmdQ, CmdQuit}
        THEN [cli |-> Exit(c, "loop", c.rc), last |-> last]
        ELSE IF command = <<>>
        THEN [cli |-> c, last |-> last]
        ELSE [cli |-> [c EXCEPT !.rc = 1, !.badAfter = TRUE], last |-> last]

\* PyStunnel(args): Stunnel.__init__(self, None), and the arguments as getopt
\* will split them.
InitCli ==
    /\ \E a \in DOMAIN CliFiles, b \in DOMAIN CliFiles :
          cfgDisk = [p \in CfgPaths |-> IF p = CfgPlain THEN CliFiles[a]
                                        ELSE IF p = CfgBlank THEN CliFiles[b]
                                        ELSE Absent]
    /\ LET o == StunnelConfigInit(cfgDisk, None)
       IN  /\ config_file = o.config_file
           /\ pid_file = o.pid_file
           /\ foreground = o.foreground
    /\ pidDisk = [p \in PidPaths |-> Absent]
    /\ last = Event("init", 0, <<>>)
    /\ e2e = "off"
    /\ pc = Idle
    /\ \E bad \in BOOLEAN, opts \in SeqsUpTo(Options, MaxOpts), args \in CliArgs :
          cli = [NoCli EXCEPT !.at = "args", !.bad = bad, !.opts = opts, !.args = args]

\* run(), line 223: parse_args; then line 224 chooses single or loop.
ParseArgs ==
    /\ cli.at = "args"
    /\ LET r == parse_args(cli.bad, cli.opts, Obj, cfgDisk)
       IN  /\ config_file' = r.obj.config_file
           /\ pid_file' = r.obj.pid_file
           /\ foreground' = r.obj.foreground
           /\ cli' = IF r.exit # -1
                     THEN Exit(cli, "parse", r.exit)
                     ELSE [cli EXCEPT !.at = IF cli.args # <<>> THEN "single" ELSE "loop",
                                      !.opts = <<>>]
    /\ UNCHANGED <<cfgDisk, pidDisk, last, e2e, pc>>

\* run(), line 225: single(args[0]).
Single ==
    /\ cli.at = "single"
    /\ \E status \in Statuses :
          LET r == single(cli, cli.args[1], status)
          IN  cli' = r.cli /\ last' = r.last
    /\ UNCHANGED <<cfgDisk, pidDisk, config_file, pid_file, foreground, e2e, pc>>

\* loop(): one line read and handled.
LoopInput ==
    /\ cli.at = "loop"
    /\ \E line \in InputLines, status \in Statuses :
          LET r == loop_step(cli, line, status)
          IN  cli' = r.cli /\ last' = r.last
    /\ UNCHANGED <<cfgDisk, pidDisk, config_file, pid_file, foreground, e2e, pc>>

\* loop(): EOFError or KeyboardInterrupt at the prompt; loop returns rc.
LoopEof ==
    /\ cli.at = "loop"
    /\ cli' = Exit(cli, "loop", cli.rc)
    /\ UNCHANGED <<cfgDisk, pidDisk, config_file, pid_file, foreground, last, e2e, pc>>

\* The daemon while commands may run, on the PID file of the configuration.
CliDaemonWrite ==
    /\ cli.at \in {"single", "loop"}
    /\ \E content \in PidContents :
          /\ pidDisk[pid_file] # content
          /\ Daemon([pidDisk EXCEPT ![pid_file] = content])

CliDaemonRemove ==
    /\ cli.at \in {"single", "loop"}
    /\ pidDisk[pid_file] # Absent
    /\ Daemon([pidDisk EXCEPT ![pid_file] = Absent])

NextCli == ParseArgs \/ Single \/ LoopInput \/ LoopEof \/ CliDaemonWrite \/ CliDaemonRemove

SpecCli == InitCli /\ [][NextCli]_vars

(***************************************************************************)
(* Claims about the command line                                           *)
(***************************************************************************)

IsOptC(o) == o.name \in {"-c", "--stunnel-config"}

\* No -h, --help, -v or --version among the options.
OnlyOptC(opts) == \A i \in 1..Len(opts) : IsOptC(opts[i])

\* C14: when a command line gives several -c options (and getopt accepts it
\* and no help or version option ends the run), parse_args leaves the object
\* as reading the last -c file alone leaves a new one: config_file is the last
\* path, and pid_file and foreground are what that file alone sets, whatever
\* the earlier files set.
C14_LastConfigWins ==
    [][(cli.at = "args" /\ ~cli.bad /\ Len(cli.opts) >= 2 /\ OnlyOptC(cli.opts)) =>
          LET alone == StunnelConfigInit(cfgDisk, cli.opts[Len(cli.opts)].value)
          IN  /\ config_file' = alone.config_file
              /\ pid_file' = alone.pid_file
              /\ foreground' = alone.foreground]_vars

\* Two -c options were parsed; the earlier file sets a PID file and
\* foreground = yes, the last one sets neither, and neither is set.
C14_Witness ==
    /\ cli.at = "exit" /\ cli.via = "parse" /\ ~cli.bad
    /\ Len(cli.opts) = 2 /\ OnlyOptC(cli.opts)
    /\ IsCfgFile(cfgDisk, cli.opts[1].value)
    /\ cfgDisk[cli.opts[1].value] = <<LinePidB, LineFgYes>>
    /\ IsCfgFile(cfgDisk, cli.opts[2].value)
    /\ cfgDisk[cli.opts[2].value] = <<LineFgNo>>
    /\ config_file = cli.opts[2].value
    /\ pid_file = None
    /\ ~foreground

\* The configuration parse_args has left is one of the four errors: no -c
\* (config_file empty), no such file, no pid entry, foreground = yes.
ConfigError ==
    /\ cli.at # "args"
    /\ \/ ~Truthy(config_file)
       \/ ~IsCfgFile(cfgDisk, config_file)
       \/ pid_file = None
       \/ foreground

\* No command has run: nothing was spawned or signalled, no PID file read.
NoCommand == ~cli.ran /\ last.op = "init" /\ last.calls = <<>>

\* C13 as stated: with any of the four configuration errors the run ends with
\* status 1 and without a lifecycle command.
C13_Original ==
    ConfigError => (cli.at = "exit" /\ cli.code = 1 /\ NoCommand)

\* C13: with any of the four configuration errors the run ends in parse_args
\* without a lifecycle command; its status is 1 unless a help or version
\* option that getopt accepted ended it first, and then it is 0.
C13_ConfigErrors ==
    ConfigError =>
        /\ cli.at = "exit"
        /\ cli.via = "parse"
        /\ NoCommand
        /\ (cli.bad \/ OnlyOptC(cli.opts)) => cli.code = 1
        /\ (~cli.bad /\ ~OnlyOptC(cli.opts)) => cli.code = 0

\* A run with -c options only, whose file sets a PID file and foreground =
\* yes, has ended with status 1 and no command.
C13_Witness ==
    /\ cli.at = "exit" /\ cli.via = "parse" /\ ~cli.bad
    /\ cli.opts # <<>> /\ OnlyOptC(cli.opts)
    /\ Truthy(config_file) /\ IsCfgFile(cfgDisk, config_file)
    /\ Truthy(pid_file) /\ foreground
    /\ cli.code = 1
    /\ NoCommand

\* The status of the last command performed, from the event it left: what
\* start(), stop() and check() returned, and for getpid 0 for a PID, else 1.
StatusOf(ev) == IF ev.op = "getpid" THEN (IF ev.rc >= 0 THEN 0 ELSE 1) ELSE ev.rc

\* The history tells the status of the last command performed, as long as the
\* daemon has not acted since.
StatusIsLast ==
    (cli.ran /\ last.op \in {"start", "stop", "check", "getpid"}) => cli.status = StatusOf(last)

\* C12 as stated: in single-command mode the code is the command's status;
\* out of the loop it is the status of the last command performed, 0 if none
\* was, whatever else was entered.
C12_Original ==
    /\ StatusIsLast
    /\ (cli.at = "exit" /\ cli.via = "single" /\ cli.ran) => cli.code = cli.status
    /\ (cli.at = "exit" /\ cli.via = "loop") =>
          cli.code = (IF cli.ran THEN cli.status ELSE 0)

\* C12: in single-command mode the code is the command's status, 1 for an
\* unrecognised word; out of the loop it is 1 if an unrecognised word was
\* entered after the last command performed (or with none performed), else
\* the status of that command, 0 if none was performed. Empty lines and the
\* quit words do not change it.
C12_ExitCode ==
    /\ StatusIsLast
    /\ (cli.at = "exit" /\ cli.via \in {"single", "loop"}) =>
          cli.code = (IF cli.badAfter THEN 1 ELSE IF cli.ran THEN cli.status ELSE 0)

\* The loop has ended with the status 2 of a stop performed in it.
C12_Witness ==
    /\ cli.at = "exit" /\ cli.via = "loop"
    /\ cli.ran /\ ~cli.badAfter
    /\ last.op = "stop" /\ last.rc = 2 /\ last.calls # <<>>
    /\ cli.code = 2

====
